---- MODULE Spec2Model ----
(***************************************************************************)
(* tape-check: the Reader of src/main.rs, an admission-controlled set of   *)
(* md5 verification tasks, driven by main() on a current_thread runtime.   *)
(*                                                                         *)
(* The driver (main) is the only flow that touches the Reader.  It is      *)
(* suspended only inside JoinSet::join_next, and spawned tasks are polled  *)
(* only while it is suspended there.  The file system is the environment:  *)
(* a file's length may change, and a file may vanish, at any time.         *)
(***************************************************************************)
EXTENDS Integers, Sequences, FiniteSets

\* ---- bounds of the model ------------------------------------------------
MaxLines == 2        \* lines of the md5sum file(s) that main reads
MaxFileSize == 2     \* largest file length the file system holds
MaxFsChanges == 1    \* changes the environment makes to the file system
U64Mod == 8          \* number of values of the scaled-down u64 of cur_size

Paths == {"a", "b"}
Digests == {"d1", "d2"}
NoFile == -1         \* metadata() of the path fails
FsVals == (1..MaxFileSize) \cup {NoFile}
MaxSizes == {1, 2}   \* budgets handed to Reader::new
MaxCliSize == 33     \* largest --max-size tried, besides the default
MaxStrLen == 3       \* longest --release string tried
DefaultMaxSize == 1024   \* line 20: default_value_t=1024
Thirty == 30         \* line 186: the right operand of ^
MaxOpens == 3        \* attempts of tokio::fs::File::open followed per task
EBUSY == 16          \* line 68: the raw os error that poll_read turns into Pending
EIO == 5             \* line 69: an os error that poll_read passes on

\* md5 of the content of a path, rendered as hex (external collaborator)
Md5Hex(p) == IF p = "a" THEN "d1" ELSE "d2"

VARIABLES
  pc,         \* position of the driver (main / add / join)
  max_size,   \* Reader::max_size
  cur_size,   \* Reader::cur_size
  readers,    \* Reader::readers: ids of the tasks in the JoinSet
  notified,   \* JoinSet: completed tasks not yet joined, in completion order
  tasks,      \* every task spawned so far, by id (position)
  fs,         \* file system: path -> length, or NoFile
  wrapped,    \* an overflow has wrapped: the build has no overflow checks
  cur,        \* locals of the running add: path, reference, filesize
  err,        \* the error main returned with
  nlines,     \* lines read so far
  fsChanges,  \* environment changes so far
  completed,  \* history: task ids in completion order
  drained,    \* history: the tasks join_next returned, in order, and what next() returned
  released,   \* history: calls of Reader::release per task id
  output,     \* stdout: the lines printed by Reader::next
  addTotal,   \* history: sum of the sizes added to cur_size
  subTotal,   \* history: sum of the sizes subtracted from cur_size
  args,       \* Cli: the parsed command line (max_size, release)
  release,    \* Reader::release: the tokens of the release command
  procs,      \* history: the processes Reader::release ran, argv and how each ended
  tpc,        \* one check_file task looked at step by step: its position
  open_res,   \* File::open: the local res
  opens,      \* history: the outcomes of the attempts of File::open, in order
  left,       \* bytes of the file the task has not read yet
  waker,      \* the suspended task has a wake-up registered
  tres        \* what the task returned

\* the Reader and its driver
readerVars == <<pc, max_size, cur_size, readers, notified, tasks, fs, wrapped, cur, err,
                nlines, fsChanges, completed, drained, released, output, addTotal, subTotal>>
\* the command line and the release command
cliVars == <<args, release, procs>>
\* the inside of one task
taskVars == <<tpc, open_res, opens, left, waker, tres>>

vars == <<readerVars, cliVars, taskVars>>

NoCur == [path |-> "", reference |-> "", filesize |-> 0]
\* the command line once Reader::new has consumed it
\* no task result yet
NoRes == [tag |-> "none", kind |-> "none", desc |-> "none"]
NoArgs == [max_size |-> 0, release |-> [some |-> FALSE, str |-> <<>>]]

Init ==
  /\ pc = "main"
  /\ max_size \in MaxSizes
  /\ cur_size = 0
  /\ readers = {}
  /\ notified = <<>>
  /\ tasks = <<>>
  /\ fs \in [Paths -> FsVals]
  /\ wrapped = FALSE
  /\ cur = NoCur
  /\ err = "none"
  /\ nlines = 0
  /\ fsChanges = 0
  /\ completed = <<>>
  /\ drained = <<>>
  /\ released = <<>>
  /\ output = <<>>
  /\ addTotal = 0
  /\ subTotal = 0
  /\ args = NoArgs
  /\ release = <<>>
  /\ procs = <<>>
  /\ tpc = "none"
  /\ open_res = "TimedOut"
  /\ opens = <<>>
  /\ left = 0
  /\ waker = FALSE
  /\ tres = NoRes

\* ---- u64 arithmetic of cur_size ---------------------------------------------
\* u64 arithmetic: the mathematical result, and whether it fits
Fits(n) == n >= 0 /\ n < U64Mod
Wrap(n) == n % U64Mod

\* An overflow panics in a build with overflow checks (debug) and wraps in one
\* without (release).  The build is the same throughout a run: once an overflow
\* has wrapped, no later one panics.
Overflow(n) ==
  IF Fits(n) THEN wrapped' = wrapped
  ELSE wrapped' = TRUE \/ (~wrapped /\ wrapped' = FALSE)
Panics(n) == ~Fits(n) /\ ~wrapped'

\* mutant of TooBig: the comparison off by one, a file of exactly max_size is refused
TooBig_Mut(filesize) == filesize >= max_size

\* line 127: filesize > self.max_size
TooBig(filesize) == filesize > max_size

\* line 133: self.cur_size + filesize > self.max_size (as the release build computes it)
MustWait(filesize) == Wrap(cur_size + filesize) > max_size

\* ---- Reader::add, lines 122-143 -----------------------------------------
\* lines 124-130: metadata, the size check; then the function is at its while loop
Submit(p, r) ==
  /\ pc = "main"
  /\ nlines < MaxLines
  /\ nlines' = nlines + 1
  /\ cur' = [path |-> p, reference |-> r,
             filesize |-> IF fs[p] = NoFile THEN 0 ELSE fs[p]]
  /\ IF fs[p] = NoFile
       THEN pc' = "failed" /\ err' = "Metadata"
       ELSE IF TooBig(fs[p])
         THEN pc' = "failed" /\ err' = "SizeExceeded"
         ELSE pc' = "add" /\ err' = err
  /\ UNCHANGED <<max_size, cur_size, readers, notified, tasks, fs, wrapped, fsChanges,
                 completed, drained, released, output, addTotal, subTotal>>
  /\ UNCHANGED <<cliVars, taskVars>>

\* lines 133-142: one evaluation of the while condition; spawn when it is false
AddLoop ==
  /\ pc = "add"
  /\ Overflow(cur_size + cur.filesize)
  /\ IF Panics(cur_size + cur.filesize)
       THEN \* attempt to add with overflow: panic
            /\ pc' = "panicked"
            /\ UNCHANGED <<cur_size, readers, tasks, addTotal, cur>>
       ELSE IF MustWait(cur.filesize)
         THEN /\ pc' = "add_next"
              /\ UNCHANGED <<cur_size, readers, tasks, addTotal, cur>>
         ELSE /\ tasks' = Append(tasks, [path |-> cur.path, reference |-> cur.reference,
                                         size |-> cur.filesize, st |-> "open", res |-> "none"])
              /\ readers' = readers \cup {Len(tasks) + 1}
              /\ cur_size' = Wrap(cur_size + cur.filesize)
              /\ addTotal' = addTotal + cur.filesize
              /\ cur' = NoCur    \* line 142: add returns, its locals are gone
              /\ pc' = "main"
  /\ UNCHANGED <<max_size, notified, fs, err, nlines, fsChanges,
                 completed, drained, released, output, subTotal>>
  /\ UNCHANGED <<cliVars, taskVars>>

\* ---- Reader::next, lines 144-161 ----------------------------------------
Caller == IF pc \in {"add_next", "add_pending"} THEN "add" ELSE "join"

\* where the caller goes with the value next() returned:
\* add, line 136: self.next().await?;       join, line 177: while let Some(_) = self.next().await?
AfterSome(caller) == IF caller = "add" THEN "add" ELSE "join_next"
AfterNone(caller) == IF caller = "add" THEN "add" ELSE "done"
\* mutant of AfterErr: join swallows the error of a drain step and carries on
AfterErr_Mut(caller) == IF caller = "join" THEN "join_next" ELSE "failed"
\* mutant of AfterErr: add drops the error of a drain step and goes round its loop
AfterErr_MutAdd(caller) == IF caller = "add" THEN "add" ELSE "failed"
AfterErr(caller) == "failed"

\* mutant of JoinNextPick: the completed task that was submitted first
JoinNextPick_Mut ==
  CHOOSE id \in readers :
     /\ tasks[id].st = "done"
     /\ \A other \in readers : tasks[other].st = "done" => id <= other

\* line 146: the task join_next hands out: the one that completed first
JoinNextPick == Head(notified)

\* line 151: the length subtracted for a task: path.metadata()?.len() at drain time
DrainLen(id) == fs[tasks[id].path]

Without(seq, id) == SelectSeq(seq, LAMBDA x : x # id)

\* lines 146-160: join_next has a completed task; the match on its result
Take(id, caller) ==
  LET t == tasks[id]
      \* history: the task, what next() returned, to whom, and the length line 151 read
      Drained(ret, len) ==
        Append(drained, [id |-> id, ret |-> ret, by |-> caller, len |-> len])
  IN
  /\ readers' = readers \ {id}
  /\ notified' = Without(notified, id)
  /\ IF t.res = "ioerr" \/ DrainLen(id) = NoFile
       THEN wrapped' = wrapped
       ELSE Overflow(cur_size - DrainLen(id))
  /\ IF t.res = "ioerr"
       THEN \* lines 156-159
            /\ released' = Append(released, id)
            /\ err' = "IOError"
            /\ pc' = AfterErr(caller)
            /\ drained' = Drained("Err", NoFile)
            /\ UNCHANGED <<cur_size, output, subTotal>>
       ELSE IF DrainLen(id) = NoFile
         THEN \* line 151: metadata()? fails
              /\ err' = "Metadata"
              /\ pc' = AfterErr(caller)
              /\ drained' = Drained("Err", NoFile)
              /\ UNCHANGED <<cur_size, output, subTotal, released>>
         ELSE IF Panics(cur_size - DrainLen(id))
           THEN \* line 151: attempt to subtract with overflow: panic
                /\ pc' = "panicked"
                /\ drained' = Drained("panic", DrainLen(id))
                /\ UNCHANGED <<cur_size, output, subTotal, released, err>>
           ELSE \* lines 151-154
                /\ cur_size' = Wrap(cur_size - DrainLen(id))
                /\ subTotal' = subTotal + DrainLen(id)
                /\ output' = Append(output, <<t.path, IF t.res = "match" THEN "OK" ELSE "FAIL">>)
                /\ released' = Append(released, id)
                /\ pc' = AfterSome(caller)
                /\ drained' = Drained("Some", DrainLen(id))
                /\ err' = err
  /\ UNCHANGED <<max_size, tasks, fs, cur, nlines, fsChanges, completed, addTotal>>

\* line 146, join_next polled: a completed task, or None, or Pending
Poll ==
  /\ pc \in {"add_next", "join_next"}
  /\ IF notified # <<>>
       THEN Take(JoinNextPick, Caller)
       ELSE /\ pc' = IF readers = {} THEN AfterNone(Caller)
                     ELSE IF Caller = "add" THEN "add_pending" ELSE "join_pending"
            /\ UNCHANGED <<max_size, cur_size, readers, notified, tasks, fs, wrapped, cur, err,
                           nlines, fsChanges, completed, drained, released, output,
                           addTotal, subTotal>>
  /\ UNCHANGED <<cliVars, taskVars>>

\* line 146, the driver is woken: join_next now has a completed task
Resume ==
  /\ pc \in {"add_pending", "join_pending"}
  /\ notified # <<>>
  /\ Take(JoinNextPick, Caller)
  /\ UNCHANGED <<cliVars, taskVars>>

\* ---- check_file, lines 91-101, run as a task of the JoinSet ---------------
Running(id) == pc \in {"add_pending", "join_pending"} /\ id \in readers

\* the value check_file returns: lines 94 and 97 fail with the io error (`?`),
\* line 100 compares the hex digest with the reference
Verdict(path, reference) == IF Md5Hex(path) = reference THEN "match" ELSE "mismatch"

\* lines 91-101 and 138-140: the task runs to its end and the JoinSet is notified.
\* Opening or reading may fail for any file; it succeeds only for a file that is there.
\* check_file has no panicking operation, so join_next never yields a JoinError.
\* mutant of CheckFile: the task gives its bytes back to the budget itself
CheckFile_Mut(id) ==
  /\ Running(id)
  /\ tasks[id].st = "open"
  /\ \E result \in {"ioerr", Verdict(tasks[id].path, tasks[id].reference)} :
        /\ result # "ioerr" => fs[tasks[id].path] # NoFile
        /\ tasks' = [tasks EXCEPT ![id].st = "done", ![id].res = result]
  /\ notified' = Append(notified, id)
  /\ completed' = Append(completed, id)
  /\ cur_size' = cur_size - tasks[id].size
  /\ UNCHANGED <<pc, max_size, readers, fs, wrapped, cur, err, nlines, fsChanges,
                 drained, released, output, addTotal, subTotal>>
  /\ UNCHANGED <<cliVars, taskVars>>

CheckFile(id) ==
  /\ Running(id)
  /\ tasks[id].st = "open"
  /\ \E result \in {"ioerr", Verdict(tasks[id].path, tasks[id].reference)} :
        /\ result # "ioerr" => fs[tasks[id].path] # NoFile
        /\ tasks' = [tasks EXCEPT ![id].st = "done", ![id].res = result]
  /\ notified' = Append(notified, id)
  /\ completed' = Append(completed, id)
  /\ UNCHANGED <<pc, max_size, cur_size, readers, fs, wrapped, cur, err, nlines, fsChanges,
                 drained, released, output, addTotal, subTotal>>
  /\ UNCHANGED <<cliVars, taskVars>>

\* ---- main, lines 183-213 -------------------------------------------------
\* line 212: the input is exhausted, reader.join()
EndInput ==
  /\ pc = "main"
  /\ pc' = "join_next"
  /\ UNCHANGED <<max_size, cur_size, readers, notified, tasks, fs, wrapped, cur, err, nlines,
                 fsChanges, completed, drained, released, output, addTotal, subTotal>>
  /\ UNCHANGED <<cliVars, taskVars>>

\* ---- environment: the file system changes under the program ---------------
FsChange(p, v) ==
  /\ pc \notin {"done", "failed", "panicked"}
  /\ fsChanges < MaxFsChanges
  /\ v # fs[p]
  /\ fs' = [fs EXCEPT ![p] = v]
  /\ fsChanges' = fsChanges + 1
  /\ UNCHANGED <<pc, max_size, cur_size, readers, notified, tasks, wrapped, cur, err, nlines,
                 completed, drained, released, output, addTotal, subTotal>>
  /\ UNCHANGED <<cliVars, taskVars>>

\* ---- main, lines 185-186: the command line and Reader::new --------------
\* Rust's ^ on u64 is bitwise exclusive or
RECURSIVE BitXor(_, _)
BitXor(a, b) ==
  IF a = 0 /\ b = 0 THEN 0
  ELSE (((a % 2) + (b % 2)) % 2) + 2 * BitXor(a \div 2, b \div 2)

\* line 186: the budget main hands to Reader::new: args.max_size^30
BudgetOf(n) == BitXor(n, Thirty)

\* the values of --max-size and --release tried
CliSizes == (0..MaxCliSize) \cup {DefaultMaxSize}
Chars == {" ", "\t", "m", "t"}
Whitespace == {" ", "\t"}
Strings == UNION {[1..n -> Chars] : n \in 0..MaxStrLen}
ReleaseOpts == {[some |-> FALSE, str |-> <<>>]} \cup {[some |-> TRUE, str |-> str] : str \in Strings}

\* mutant of SplitWhitespace: split at every single space, str.split(' ')
RECURSIVE SplitAtSpaces(_, _, _)
SplitAtSpaces(str, token, acc) ==
  IF str = <<>> THEN Append(acc, token)
  ELSE IF Head(str) = " " THEN SplitAtSpaces(Tail(str), <<>>, Append(acc, token))
  ELSE SplitAtSpaces(Tail(str), Append(token, Head(str)), acc)
SplitWhitespace_Mut(str) == SplitAtSpaces(str, <<>>, <<>>)

\* line 117: r.split_whitespace(): the maximal runs of non-whitespace, in order
RECURSIVE SplitRuns(_, _, _)
SplitRuns(str, token, acc) ==
  LET closed == IF token = <<>> THEN acc ELSE Append(acc, token) IN
  IF str = <<>> THEN closed
  ELSE IF Head(str) \in Whitespace THEN SplitRuns(Tail(str), <<>>, closed)
  ELSE SplitRuns(Tail(str), Append(token, Head(str)), acc)
SplitWhitespace(str) == SplitRuns(str, <<>>, <<>>)

\* lines 114-119: the release vector Reader::new builds from the option
NewRelease(opt) == IF opt.some THEN SplitWhitespace(opt.str) ELSE <<>>

\* lines 112-121 and 185-186: Cli::parse, then Reader::new(args.max_size^30, args.release)
MainNew ==
  /\ pc = "start"
  /\ pc' = "main"
  /\ max_size' = BudgetOf(args.max_size)
  /\ release' = NewRelease(args.release)
  /\ UNCHANGED <<cur_size, readers, notified, tasks, fs, wrapped, cur, err, nlines, fsChanges,
                 completed, drained, released, output, addTotal, subTotal>>
  /\ UNCHANGED <<args, procs, taskVars>>

\* how the process of a release command can end: Command::status() is Ok with an
\* exit status, or Err when the program could not be started
HookOutcomes == {"exit0", "exit1", "spawn_failed"}

\* line 172: .status().ok(); the Result is turned into an Option and dropped
HookResult(outcome) == "unit"

\* lines 162-174: Reader::release(path), called here on its own.  No task exists
\* in this specification: the path in `released` stands for the call.
ReleaseCall(p, outcome) ==
  /\ pc = "main"
  /\ released = <<>>
  /\ released' = <<p>>
  /\ IF release # <<>>
       THEN \* line 164: split_first is Some((program, params)); line 172
            procs' = Append(procs, [argv |-> release \o <<<<p>>>>, ended |-> outcome])
       ELSE procs' = procs
  /\ err' = IF HookResult(outcome) = "unit" THEN err ELSE "Hook"
  /\ UNCHANGED <<pc, max_size, cur_size, readers, notified, tasks, fs, wrapped, cur, nlines,
                 fsChanges, completed, drained, output, addTotal, subTotal>>
  /\ UNCHANGED <<args, release, taskVars>>

\* a Reader that main has not built yet (#[derive(Default)]), nothing in the file system
InitCli ==
  /\ pc = "start"
  /\ max_size = 0
  /\ cur_size = 0
  /\ readers = {}
  /\ notified = <<>>
  /\ tasks = <<>>
  /\ fs = [p \in Paths |-> NoFile]
  /\ wrapped = FALSE
  /\ cur = NoCur
  /\ err = "none"
  /\ nlines = 0
  /\ fsChanges = 0
  /\ completed = <<>>
  /\ drained = <<>>
  /\ released = <<>>
  /\ output = <<>>
  /\ addTotal = 0
  /\ subTotal = 0
  /\ args \in [max_size : CliSizes, release : ReleaseOpts]
  /\ release = <<>>
  /\ procs = <<>>
  /\ tpc = "none"
  /\ open_res = "TimedOut"
  /\ opens = <<>>
  /\ left = 0
  /\ waker = FALSE
  /\ tres = NoRes

NextCli ==
  \/ MainNew
  \/ \E p \in Paths, outcome \in HookOutcomes : ReleaseCall(p, outcome)

SpecCli == InitCli /\ [][NextCli]_vars

Next ==
  \/ \E p \in Paths, r \in Digests : Submit(p, r)
  \/ AddLoop
  \/ Poll
  \/ Resume
  \/ \E id \in readers : CheckFile(id)
  \/ EndInput
  \/ \E p \in Paths, v \in FsVals : FsChange(p, v)

Spec == Init /\ [][Next]_vars

TypeOK ==
  /\ pc \in {"start", "main", "add", "add_next", "add_pending", "join_next", "join_pending",
             "done", "failed", "panicked"}
  /\ cur_size \in 0..(U64Mod - 1)
  /\ readers \subseteq 1..Len(tasks)

\* ---- one check_file task in detail: File::open and File::poll_read ----------
\* the kinds of outcome of one tokio::fs::File::open (line 49)
OpenOutcomes == {"Ok", "TimedOut", "Interrupted", "NotFound", "PermissionDenied"}

\* mutant of IsTransient: only a timeout is tried again
IsTransient_Mut(kind) == kind = "TimedOut"

\* line 47: the error kinds after which open is tried (again)
IsTransient(kind) == kind \in {"TimedOut", "Interrupted"}

\* lines 52-53: the error File::open returns: a new error of the same kind
OpenError(kind) == [tag |-> "Err", kind |-> kind, desc |-> "Failed to open"]

\* line 97: copy returns the error poll_read gave it
ReadError == [tag |-> "Err", kind |-> "Other", desc |-> "os"]

\* line 100: Ok(computed == reference)
TaskOk == [tag |-> "Ok", kind |-> "none", desc |-> Verdict(cur.path, cur.reference)]

\* lines 44-49: res is an Err of a kind that is tried again: the open is attempted
OpenRetry(outcome) ==
  /\ tpc = "open"
  /\ open_res # "Ok" /\ IsTransient(open_res)
  /\ Len(opens) < MaxOpens
  /\ open_res' = outcome
  /\ opens' = Append(opens, outcome)
  /\ UNCHANGED <<tpc, left, waker, tres>>
  /\ UNCHANGED <<readerVars, cliVars>>

\* lines 51-54: res is an Err of any other kind: return it; check_file ends (line 94)
OpenFail ==
  /\ tpc = "open"
  /\ open_res # "Ok" /\ ~IsTransient(open_res)
  /\ tpc' = "done"
  /\ tres' = OpenError(open_res)
  /\ UNCHANGED <<open_res, opens, left, waker>>
  /\ UNCHANGED <<readerVars, cliVars>>

\* lines 44, 57: res is Ok: the loop ends and the handle is returned; copy starts
OpenDone ==
  /\ tpc = "open"
  /\ open_res = "Ok"
  /\ tpc' = "read"
  /\ UNCHANGED <<open_res, opens, left, waker, tres>>
  /\ UNCHANGED <<readerVars, cliVars>>

\* what the poll_read of tokio::fs::File can return (line 64)
PollOutcomes ==
  {[poll |-> "Ready", errno |-> 0], [poll |-> "Ready", errno |-> EBUSY],
   [poll |-> "Ready", errno |-> EIO], [poll |-> "Pending", errno |-> 0]}

\* lines 62-73, polled from copy (line 97): one poll_read of the task.
\* The inner file registers the task's waker only when it returns Pending itself.
PollRead(o) ==
  /\ tpc = "read"
  /\ IF o.poll = "Pending"
       THEN \* line 71: the inner read is in flight and will wake the task
            /\ tpc' = "suspended" /\ waker' = TRUE
            /\ UNCHANGED <<left, tres>>
       ELSE IF o.errno = EBUSY
         THEN \* line 68: Pending is returned, nobody holds the waker
              /\ tpc' = "suspended" /\ waker' = FALSE
              /\ UNCHANGED <<left, tres>>
         ELSE IF o.errno # 0
           THEN \* line 69, then `?` of line 97
                /\ tpc' = "done" /\ tres' = ReadError
                /\ UNCHANGED <<left, waker>>
           ELSE IF left > 0
             THEN \* line 66: bytes were read, copy goes on
                  /\ left' = left - 1
                  /\ UNCHANGED <<tpc, tres, waker>>
             ELSE \* line 66 at end of file: copy is done, lines 98-100
                  /\ tpc' = "done" /\ tres' = TaskOk
                  /\ UNCHANGED <<left, waker>>
  /\ UNCHANGED <<open_res, opens>>
  /\ UNCHANGED <<readerVars, cliVars>>

\* the runtime polls a suspended task again when its waker is called
Wake ==
  /\ tpc = "suspended"
  /\ waker
  /\ tpc' = "read"
  /\ waker' = FALSE
  /\ UNCHANGED <<open_res, opens, left, tres>>
  /\ UNCHANGED <<readerVars, cliVars>>

\* line 139: the task as spawned for a file of some length; main is in join_next
InitTask ==
  /\ pc = "join_pending"
  /\ max_size = MaxFileSize
  /\ cur_size = 0
  /\ readers = {}
  /\ notified = <<>>
  /\ tasks = <<>>
  /\ fs = [p \in Paths |-> NoFile]
  /\ wrapped = FALSE
  /\ cur \in [path : Paths, reference : Digests, filesize : 0..MaxFileSize]
  /\ err = "none"
  /\ nlines = 0
  /\ fsChanges = 0
  /\ completed = <<>>
  /\ drained = <<>>
  /\ released = <<>>
  /\ output = <<>>
  /\ addTotal = 0
  /\ subTotal = 0
  /\ args = NoArgs
  /\ release = <<>>
  /\ procs = <<>>
  /\ tpc = "open"
  /\ open_res = "TimedOut"
  /\ opens = <<>>
  /\ left = cur.filesize
  /\ waker = FALSE
  /\ tres = NoRes

NextTask ==
  \/ \E outcome \in OpenOutcomes : OpenRetry(outcome)
  \/ OpenFail
  \/ OpenDone
  \/ \E o \in PollOutcomes : PollRead(o)
  \/ Wake

SpecTask == InitTask /\ [][NextTask]_vars

\* ---- vocabulary of the claims ----------------------------------------------
Admitted == 1..Len(tasks)
\* the sum of the sizes declared at submission by the entries of a set
RECURSIVE SumSizes(_)
SumSizes(S) ==
  IF S = {} THEN 0
  ELSE LET i == CHOOSE x \in S : TRUE IN tasks[i].size + SumSizes(S \ {i})
DrainedIds == {drained[i].id : i \in 1..Len(drained)}
Occurrences(seq, x) == Cardinality({i \in 1..Len(seq) : seq[i] = x})
TimesDrained(id) == Cardinality({i \in 1..Len(drained) : drained[i].id = id})
\* a drain step: join_next handed out a task
DrainStep == Len(drained') = Len(drained) + 1
LastDrained == drained'[Len(drained')]

\* C1: for submissions each no larger than the budget (at submission, which add
\* enforces, and whenever the length is read again), the running total cur_size
\* is at most max_size in every reachable state, whatever the completion order.
C1_BudgetNeverExceeded ==
  (\A i \in 1..Len(drained) : drained[i].len <= max_size) => cur_size <= max_size

\* C2: in every state cur_size equals the sum of the declared sizes of the entries
\* that were admitted and have not been removed from the in-flight set, also after
\* a drain that surfaced an error and after a rejected Submit.
C2_CurSizeIsInFlightSum == cur_size = SumSizes(readers)

\* C3: a drain step that observes a task completed with an IOError subtracts the
\* entry's declared size from cur_size and removes the entry from the in-flight
\* set before the error is returned.
C3_ErrorDrainReleasesBudget ==
  [][(DrainStep /\ tasks[LastDrained.id].res = "ioerr")
       => /\ LastDrained.id \notin readers'
          /\ cur_size' = cur_size - tasks[LastDrained.id].size]_vars

\* C4: every admitted item is drained exactly once: never twice, all of them once
\* Join has run to completion, and the sizes subtracted by the drain steps add up
\* to the sizes added by the admits of the drained items, also on error paths.
C4_DrainedExactlyOnce ==
  /\ \A id \in Admitted : TimesDrained(id) <= 1
  /\ subTotal = SumSizes(DrainedIds)
  /\ pc = "done" => /\ \A id \in Admitted : TimesDrained(id) = 1
                    /\ subTotal = addTotal

\* a step of add that reads the metadata of the submitted path (lines 124-130)
SubmitStep == pc = "main" /\ nlines' = nlines + 1

\* C5: Submit of a file longer than max_size fails with the SizeExceeded error
\* whatever is in flight, performs no drain step, spawns no task and leaves
\* cur_size and the in-flight set as they were; a file exactly max_size long is
\* not rejected.
C5_OversizeRejected ==
  [][(SubmitStep /\ fs[cur'.path] # NoFile)
       => /\ cur'.filesize = fs[cur'.path]
          /\ cur'.filesize > max_size
               => /\ pc' = "failed" /\ err' = "SizeExceeded"
                  /\ UNCHANGED <<cur_size, readers, tasks, notified, drained, released>>
          /\ cur'.filesize <= max_size
               => pc' = "add" /\ err' = "none"]_vars

\* C5 witness: a file longer than the budget was rejected while an admitted file
\* exactly as long as the budget was in flight.
C5_Witness ==
  /\ pc = "failed" /\ err = "SizeExceeded"
  /\ cur.filesize > max_size
  /\ \E id \in readers : tasks[id].size = max_size

\* an evaluation of the while condition of add (line 133) that spawns / does not
AddStep == pc = "add" /\ pc' \notin {"add", "panicked"}
Spawned == Len(tasks') = Len(tasks) + 1

\* C6: Submit admits at once, with no drain step, when cur_size + filesize <=
\* max_size (equality included), does not spawn while cur_size + filesize >
\* max_size, and returns as soon as the task is spawned.
C6_WaitsExactlyOverBudget ==
  [][/\ (AddStep /\ cur_size + cur.filesize <= max_size)
          => Spawned /\ pc' = "main" /\ drained' = drained
     /\ (AddStep /\ cur_size + cur.filesize > max_size)
          => ~Spawned /\ pc' = "add_next"
     /\ Spawned => pc = "add" /\ pc' = "main"]_vars

\* C7: every entry that has left the in-flight set had Reader::release called on
\* its path exactly once, whether its task ended in match, mismatch or IOError,
\* and no entry still in flight has been released.
C7_ReleasedExactlyOnce ==
  \A id \in Admitted :
     Occurrences(released, id) = IF id \in readers THEN 0 ELSE 1

\* the drain steps that surfaced an error to join
JoinErrors == {i \in 1..Len(drained) : drained[i].by = "join" /\ drained[i].ret = "Err"}

\* C8: Join surfaces the first error of a drain step and stops at once: that
\* drain step is the last one, main has returned with the error, and every entry
\* admitted and not drained is still in the in-flight set (nothing is cancelled).
C8_JoinStopsAtFirstError ==
  \A i \in JoinErrors :
     /\ i = Len(drained)
     /\ pc = "failed" /\ err # "none"
     /\ readers = Admitted \ DrainedIds

\* C8 witness: join returned an error while another admitted task, one that had
\* already completed, was left in the in-flight set.
C8_Witness ==
  /\ JoinErrors # {}
  /\ \E id \in readers : tasks[id].st = "done"

\* C9: whenever Join returns successfully the in-flight set is empty and
\* cur_size is 0.
C9_JoinLeavesNothing == pc = "done" => readers = {} /\ cur_size = 0

\* the ids of a sequence of drain records
RECURSIVE IdsOf(_)
IdsOf(seq) == IF seq = <<>> THEN <<>> ELSE <<Head(seq).id>> \o IdsOf(Tail(seq))
IsPrefix(s, t) == Len(s) <= Len(t) /\ SubSeq(t, 1, Len(s)) = s

\* C10: a drain step returns only a task that has completed, and the tasks are
\* drained in the order in which they completed, not in the order of submission;
\* on an empty in-flight set next() returns None at once and changes no state.
C10_DrainsInCompletionOrder ==
  /\ [](IsPrefix(IdsOf(drained), completed))
  /\ [][DrainStep => tasks[LastDrained.id].st = "done"]_vars
  /\ [][(pc \in {"add_next", "join_next"} /\ readers = {} /\ pc' # pc)
         => /\ pc' = IF pc = "join_next" THEN "done" ELSE "add"
            /\ UNCHANGED <<max_size, cur_size, readers, notified, tasks, fs, wrapped, cur,
                           err, nlines, fsChanges, completed, drained, released, output,
                           addTotal, subTotal>>]_vars

\* C10 witness: the task submitted second completed first and was drained first,
\* the task submitted first was drained after it.
C10_Witness ==
  /\ Len(drained) = 2
  /\ drained[1].id = 2 /\ drained[2].id = 1
  /\ completed = <<2, 1>>

\* the budget Reader::new received in the last step, for the --max-size given
BuiltFrom(n) == pc = "start" /\ pc' = "main" /\ args.max_size = n

\* C11: the budget handed to the Reader is --max-size in GBytes: for every value
\* n of --max-size the Reader is built with max_size = n * 2^30 (stated by
\* division, 2^30 times n being beyond the integers of the checker).
C11_BudgetInGBytes ==
  [][\A n \in CliSizes :
       BuiltFrom(n) => (max_size' % (2^30)) = 0 /\ (max_size' \div (2^30)) = n]_vars

\* the lines the claim expects for a sequence of drain records: one per task
\* drained with a result, OK exactly when the computed digest equals the reference
RECURSIVE ExpectedLines(_)
ExpectedLines(seq) ==
  IF seq = <<>> THEN <<>>
  ELSE LET t == tasks[Head(seq).id] IN
       (IF t.res = "ioerr" THEN <<>>
        ELSE <<<<t.path, IF Md5Hex(t.path) = t.reference THEN "OK" ELSE "FAIL">>>>)
       \o ExpectedLines(Tail(seq))

\* C12: every task drained with a result has exactly one output line, '<path> OK'
\* if and only if the computed hex digest equals the expected digest and
\* '<path> FAIL' otherwise; a task drained with an IOError has no line, and no
\* line exists for a task that has not been drained.
C12_OneLinePerResult == output = ExpectedLines(drained)

\* the tokens of a string, said without running the split: no token is empty or
\* holds whitespace, the tokens in order are the string without its whitespace,
\* and there is one token per place where a run of non-whitespace starts
RECURSIVE Flatten(_)
Flatten(seqs) == IF seqs = <<>> THEN <<>> ELSE Head(seqs) \o Flatten(Tail(seqs))
IsTokenization(tokens, str) ==
  /\ \A i \in 1..Len(tokens) :
        tokens[i] # <<>> /\ \A j \in 1..Len(tokens[i]) : tokens[i][j] \notin Whitespace
  /\ Flatten(tokens) = SelectSeq(str, LAMBDA c : c \notin Whitespace)
  /\ Len(tokens) = Cardinality({i \in 1..Len(str) :
                      str[i] \notin Whitespace /\ (i = 1 \/ str[i - 1] \in Whitespace)})

\* C13: Reader::release(path) runs exactly one process with argv = program,
\* configured arguments in order, path, these being the whitespace-separated
\* tokens of the release string given at construction; with no release command,
\* or one without tokens, it runs nothing; however the process ends, or fails
\* to start, nothing is returned to the drain step that called it.
C13_ReleaseArgv ==
  pc # "start" =>
    /\ IF args.release.some THEN IsTokenization(release, args.release.str)
                            ELSE release = <<>>
    /\ Len(procs) = IF release = <<>> THEN 0 ELSE Len(released)
    /\ \A i \in 1..Len(procs) : procs[i].argv = release \o <<<<released[i]>>>>
    /\ err = "none" /\ pc = "main"

\* C13 witness: a release string of two tokens with a tab between them; the
\* process got the two tokens and the path, and could not be started.
C13_Witness ==
  /\ args.release.some /\ args.release.str = <<"m", "\t", "t">>
  /\ release = << <<"m">>, <<"t">> >>
  /\ Len(procs) = 1 /\ procs[1].ended = "spawn_failed"
  /\ procs[1].argv = << <<"m">>, <<"t">>, <<"b">> >>

\* C14: every Submit terminates when the tasks complete: its wait loop ends when
\* the in-flight set is empty, so add never calls next() on an empty in-flight
\* set, where next() yields None, changes nothing, and the loop would go round
\* for ever.
C14_SubmitNeverSpins == ~(pc = "add_next" /\ readers = {})

\* C15: a drain step that consumes a task with a result subtracts from cur_size
\* the size the task was admitted with, also when the file has since changed
\* its length or can no longer be stat-ed.
C15_DrainSubtractsDeclaredSize ==
  [][(DrainStep /\ tasks[LastDrained.id].res # "ioerr")
       => cur_size' = cur_size - tasks[LastDrained.id].size]_vars

\* C16: a drain step inside the wait loop of Submit that surfaces an error makes
\* Submit return that error at once: the submitted file is not spawned, is not
\* added to the in-flight set, its size is not added to cur_size, and nothing
\* runs after the failure.
C16_AddPropagatesDrainError ==
  /\ [][(DrainStep /\ LastDrained.by = "add" /\ LastDrained.ret = "Err")
          => /\ pc = "add_next" \/ pc = "add_pending"
             /\ pc' = "failed" /\ err' \in {"IOError", "Metadata"}
             /\ ~Spawned
             /\ readers' = readers \ {LastDrained.id}
             /\ UNCHANGED <<cur_size, addTotal, cur>>]_vars
  /\ [][pc # "failed"]_vars

\* C16 witness: the second file waited for the first, whose task failed with an
\* io error; Submit failed and the second file was never spawned.
C16_Witness ==
  /\ pc = "failed" /\ err = "IOError"
  /\ nlines = 2 /\ Len(tasks) = 1 /\ readers = {}
  /\ drained = <<[id |-> 1, ret |-> "Err", by |-> "add", len |-> NoFile]>>
  /\ cur_size = tasks[1].size

TaskStep == completed' # completed
DriverPcs == {"add", "add_next", "add_pending", "join_next", "join_pending"}

\* C17: cur_size and the in-flight set have a single writer: a step of a task
\* leaves both unchanged, and every step that changes either of them is a step
\* of the driver inside add or join, during which no task moves.
C17_SingleWriter ==
  [][/\ TaskStep => UNCHANGED <<cur_size, readers>>
     /\ (cur_size' # cur_size \/ readers' # readers)
          => pc \in DriverPcs /\ ~TaskStep /\ fs' = fs]_vars

\* C17 witness: two tasks ran to completion while the driver was suspended and
\* neither has been drained: both are still in flight and counted in cur_size.
C17_Witness ==
  /\ Len(completed) = 2 /\ drained = <<>>
  /\ readers = {1, 2} /\ cur_size = 2
  /\ pc = "join_pending"

Transient == {"TimedOut", "Interrupted"}
Attempt == Len(opens') = Len(opens) + 1
LastOpen == opens[Len(opens)]

\* C18: File::open makes a further attempt exactly after a timed-out or
\* interrupted one (however many there were); after the first failure of another
\* kind it makes no attempt and returns an error of that same kind; after a
\* successful attempt it returns the handle; it never returns a transient error.
C18_RetryIffTransient ==
  /\ [][Attempt => tpc = "open" /\ (opens = <<>> \/ LastOpen \in Transient)]_vars
  /\ [][(tpc = "open" /\ opens # <<>> /\ LastOpen \in Transient) => Attempt]_vars
  /\ [][(tpc = "open" /\ opens # <<>> /\ LastOpen \notin Transient \cup {"Ok"})
          => /\ tpc' = "done" /\ opens' = opens
             /\ tres'.tag = "Err" /\ tres'.kind = LastOpen]_vars
  /\ [][(tpc = "open" /\ opens # <<>> /\ LastOpen = "Ok")
          => tpc' = "read" /\ opens' = opens /\ tres' = NoRes]_vars
  /\ [](tres.kind \notin Transient)

\* C18 witness: a timed-out and an interrupted attempt were both tried again, and
\* the third attempt failed for good and was returned with its kind.
C18_Witness ==
  /\ opens = <<"TimedOut", "Interrupted", "NotFound">>
  /\ tpc = "done"
  /\ tres = [tag |-> "Err", kind |-> "NotFound", desc |-> "Failed to open"]

\* C19: after a transient read error the task is polled again: a task that
\* poll_read has suspended is always one that somebody will wake.
C19_TransientReadRetried == tpc = "suspended" => waker

\* C20: the u64 arithmetic on cur_size never leaves its range: a drain step
\* that subtracts a length subtracts at most cur_size, and the sum
\* cur_size + filesize that add compares with max_size fits in a u64.
C20_NoUnderOrOverflow ==
  /\ [][(DrainStep /\ LastDrained.ret # "Err") => Fits(cur_size - LastDrained.len)]_vars
  /\ [][(pc = "add" /\ pc' # pc) => Fits(cur_size + cur.filesize)]_vars

====
